---- MODULE Spec2Model ----
(***************************************************************************)
(* Model of the road-network rasterizer of stars-export-carla              *)
(* (helpers/map_rasterizer.py, carla_data_classes/data_classes.py).       *)
(*                                                                         *)
(* Lengths are integers counted in decimetres (0.1 m): the midpoint        *)
(* precision 0.1 is 1, the default walking precision 2.0 is 20, the        *)
(* contact-area margin 3.0 is 30.  Areas (cross products) are in dm^2, so  *)
(* the collinearity tolerance 0.1 m^2 is 10.  A float distance             *)
(* 0.1 * i is held as the integer i; for 0 <= i < 700 the IEEE double      *)
(* 0.1 * i satisfies `x % 1.0 == 0` exactly when i is a multiple of 10.    *)
(*                                                                         *)
(* The CARLA map service is the environment: a small family of maps is     *)
(* drawn in Init (lane length, the junction's driving-lane list, the       *)
(* behaviour of a step past the end of a lane, the order of the samples)   *)
(* and the landmark list is drawn when add_landmarks_to_lanes asks for it. *)
(***************************************************************************)
EXTENDS Integers, Sequences, FiniteSets, TLC

VARIABLES
    world,          \* the loaded map: [len, jl, alt] (self._world / self._map)
    pc,             \* position in get_data_blocks: "blocks", "landmarks", "done"; "idle" outside it
    wi,             \* number of samples of waypoint_list already iterated
    data_blocks,    \* the local list data_blocks of get_data_blocks
    self_blocks,    \* self._blocks
    landmarks,      \* the list returned by get_all_landmarks in add_landmarks_to_lanes
    li,             \* number of landmarks already iterated
    landmark_s,     \* landmark_s[k]: field s of the DataLandmark object built for landmarks[k]
    caller,         \* the method the client called last: "direct" for get_data_blocks,
                    \* "load" for load_or_calculate_data_blocks, "save" for
                    \* save_data_blocks
    update_existing,\* the parameter of the running load_or_calculate_data_blocks
    zip_file,       \* the archive static_data_<name>.zip
    json_file,      \* the file static_data_<name>.json next to it
    kd_tree,        \* self._kd_tree
    lane_midpoints, \* self._lane_midpoints
    outcome,        \* how the last call of the rasterizer ended: "none", "returned", "raised"
    calls,          \* number of calls of the rasterizer started so far
    io,             \* the file operations of the last load_or_calculate_data_blocks, in order
    loop_lane,      \* `lane` of the pair loop of get_data_roads_for_junction (line 252)
    loop_check_lane,\* `intersection_check_lane` of that loop (line 253)
    lane_map,       \* what wp.next(d) and wp.previous(d) return for the samples of one lane
    walk_pc,        \* position in get_all_waypoints_for_lane: "backward", "forward",
                    \* "returned"; "off" outside it
    walk_ref,       \* its parameter `lane`, the reference sample
    walk_lane,      \* `lane` of the running directional walk
    walk_list,      \* previous_waypoints / next_waypoints of the running walk
    walk_has,       \* has_previous / has_next of the running walk
    walk_back,      \* waypoints_until_start
    walk_result     \* unique_waypoints

\* the state of get_data_blocks and the state around it
build_vars == <<world, pc, wi, data_blocks, self_blocks, landmarks, li, landmark_s>>
cache_vars == <<caller, update_existing, zip_file, json_file, kd_tree, lane_midpoints,
                outcome, calls, io>>
calc_vars == <<loop_lane, loop_check_lane>>
walk_vars == <<lane_map, walk_pc, walk_ref, walk_lane, walk_list, walk_has, walk_back,
               walk_result>>
vars == <<build_vars, cache_vars, calc_vars, walk_vars>>

----------------------------------------------------------------------------
(* Bounds of the model *)

MaxJunctionLanes == 2
MaxLandmarks == 2
MinLaneLen == 5
MaxLaneLen == 20
MaxCalls == 2

(* Program constants, in decimetres *)

MidpointPrecision == 1
LengthPrecision == 20
SampleDistance == 20
CONTACT_AREA_MARGIN == 30
StationStep == 10
BetweenTolerance == 10

----------------------------------------------------------------------------
(* The map service *)

RoadIds == <<1, 2, 3>>

\* Roads 1 and 2 lie in the junction, road 3 is a plain multi-lane road.
JunctionRoads == {1, 2}

RoadLanes(r) ==
    CASE r = 1 -> <<1, -1>>
      [] r = 2 -> <<-1>>
      [] r = 3 -> <<-1, 1>>

JunctionLaneKeys == {<<1, 1>>, <<1, -1>>, <<2, -1>>}

LaneLens == {MinLaneLen, MaxLaneLen - 1, MaxLaneLen}

Waypoint(r, l, pos) == [road_id |-> r, lane_id |-> l, s |-> pos]

\* waypoint.is_junction
IsJunction(wp) == wp.road_id \in JunctionRoads

\* waypoint.transform.location: every lane is a straight line on the dm grid.
\* Lane (1,1) runs along y = 2, lanes (2,-1) and (1,-1) run along x = 1 and
\* x = 2 and cross it; the lanes of road 3 are parallel and far away.
Location(wp) ==
    CASE wp.road_id = 1 /\ wp.lane_id = 1  -> <<wp.s, 2>>
      [] wp.road_id = 2 /\ wp.lane_id = -1 -> <<1, wp.s>>
      [] wp.road_id = 1 /\ wp.lane_id = -1 -> <<2, wp.s>>
      [] wp.road_id = 3 /\ wp.lane_id = -1 -> <<wp.s, 50>>
      [] wp.road_id = 3 /\ wp.lane_id = 1  -> <<wp.s, 53>>
      [] OTHER -> <<0, 0>>

\* The sample a step lands on once it leaves the lane: a lane of another road.
OtherLane(wp) == Waypoint(wp.road_id + 10, wp.lane_id, 0)

\* waypoint.next(distance)
StepNext(w, wp, distance) ==
    IF wp.s + distance <= w.len
    THEN <<Waypoint(wp.road_id, wp.lane_id, wp.s + distance)>>
    ELSE IF w.alt THEN <<>> ELSE <<OtherLane(wp)>>

\* waypoint.previous(distance)
StepPrevious(w, wp, distance) ==
    IF wp.s - distance >= 0
    THEN <<Waypoint(wp.road_id, wp.lane_id, wp.s - distance)>>
    ELSE IF w.alt THEN <<>> ELSE <<OtherLane(wp)>>

RECURSIVE flatten(_)
flatten(l) == IF l = <<>> THEN <<>> ELSE Head(l) \o flatten(Tail(l))

Reverse(s) == [i \in 1..Len(s) |-> s[Len(s) + 1 - i]]

LaneSamples(w, r, l, distance) ==
    [k \in 1..((w.len \div distance) + 1) |-> Waypoint(r, l, (k - 1) * distance)]

RoadSamples(w, r, distance) ==
    flatten([k \in 1..Len(RoadLanes(r)) |-> LaneSamples(w, r, RoadLanes(r)[k], distance)])

\* self._map.generate_waypoints(distance)
generate_waypoints(w, distance) ==
    LET all == flatten([k \in 1..Len(RoadIds) |-> RoadSamples(w, RoadIds[k], distance)])
    IN IF w.alt THEN Reverse(all) ELSE all

\* junction.get_waypoints(LaneType.Driving): the first sample of each tuple
junction_get_waypoints(w) ==
    [k \in 1..Len(w.jl) |-> Waypoint(w.jl[k][1], w.jl[k][2], 0)]

Extend(shorter, S) == shorter \cup {Append(q, x) : q \in shorter, x \in S}

RECURSIVE SeqsUpTo(_, _)
SeqsUpTo(S, n) == IF n = 0 THEN {<<>>} ELSE Extend(SeqsUpTo(S, n - 1), S)

Worlds ==
    [len : LaneLens, jl : SeqsUpTo(JunctionLaneKeys, MaxJunctionLanes), alt : BOOLEAN]

----------------------------------------------------------------------------
(* Lane Walker *)

SameLane(a, b) == a.road_id = b.road_id /\ a.lane_id = b.lane_id

\* one pass of the for loop over the stepped samples (lines 659-665 and
\* 687-693): a sample of the same lane is appended and becomes the current
\* one, any other sample ends the walk
WalkForStep(nxt, st) ==
    IF SameLane(nxt, st.lane)
    THEN [lane |-> nxt, acc |-> Append(st.acc, nxt), has |-> st.has]
    ELSE [lane |-> st.lane, acc |-> st.acc, has |-> FALSE]

RECURSIVE WalkFor(_, _, _)
WalkFor(stepped, i, st) ==
    IF i > Len(stepped) THEN st ELSE WalkFor(stepped, i + 1, WalkForStep(stepped[i], st))

\* one pass of the while loop: has_next is cleared when the step returns nothing
WalkPass(stepped, lane, acc) ==
    WalkFor(stepped, 1, [lane |-> lane, acc |-> acc, has |-> Len(stepped) # 0])

RECURSIVE WalkEnd(_, _, _, _)
WalkEndAgain(w, precision, st) ==
    IF st.has THEN WalkEnd(w, st.lane, precision, st.acc) ELSE st.acc

WalkEnd(w, lane, precision, acc) ==
    WalkEndAgain(w, precision, WalkPass(StepNext(w, lane, precision), lane, acc))

get_all_waypoints_until_end_of_lane(w, lane, precision) ==
    WalkEnd(w, lane, precision, <<>>)

RECURSIVE WalkStart(_, _, _, _)
WalkStartAgain(w, precision, st) ==
    IF st.has THEN WalkStart(w, st.lane, precision, st.acc) ELSE st.acc

WalkStart(w, lane, precision, acc) ==
    WalkStartAgain(w, precision, WalkPass(StepPrevious(w, lane, precision), lane, acc))

get_all_waypoints_until_start_of_lane(w, lane, precision) ==
    WalkStart(w, lane, precision, <<>>)

\* "Remove duplicate entries with preserving of order" (lines 541-544)
RECURSIVE Unique(_, _)
Unique(all, acc) ==
    IF all = <<>> THEN acc
    ELSE Unique(Tail(all),
                IF \E k \in 1..Len(acc) : acc[k] = Head(all)
                THEN acc ELSE Append(acc, Head(all)))

\* variant: the counter starting at 1
WaypointDistanceFromOne(precision, waypoint_counter) == precision * (waypoint_counter + 1)

\* distance = precision * waypoint_counter, the counter starting at 0
WaypointDistance(precision, waypoint_counter) == precision * waypoint_counter

\* the loop of lines 548-553
WithDistances(unique_waypoints, precision) ==
    [k \in 1..Len(unique_waypoints) |->
        <<WaypointDistance(precision, k - 1), unique_waypoints[k]>>]

get_all_waypoints_for_lane(w, lane, precision) ==
    WithDistances(
        Unique((Reverse(get_all_waypoints_until_start_of_lane(w, lane, precision))
                    \o <<lane>>)
                    \o get_all_waypoints_until_end_of_lane(w, lane, precision),
               <<>>),
        precision)

\* variant: three steps beyond the last waypoint
LastDistancePlusThree(all_waypoints, precision) ==
    all_waypoints[Len(all_waypoints)][1] + 3 * precision

\* all_waypoints[all_waypoints.__len__() - 1][0] + precision
LastDistancePlus(all_waypoints, precision) ==
    all_waypoints[Len(all_waypoints)][1] + precision

get_length_of_lane(w, lane, precision) ==
    LastDistancePlus(get_all_waypoints_for_lane(w, lane, precision), precision)

----------------------------------------------------------------------------
(* Lane Builder *)

DataLaneMidpoint(distance, wp, lane) ==
    [distance_to_start |-> distance, location |-> Location(wp),
     lane_id |-> lane.lane_id, road_id |-> lane.road_id]

DataLane(waypoint, lane_length, all_waypoints) ==
    [road_id |-> waypoint.road_id,
     lane_id |-> waypoint.lane_id,
     lane_length |-> lane_length,
     s |-> waypoint.s,
     lane_midpoints |-> [k \in 1..Len(all_waypoints) |->
         DataLaneMidpoint(all_waypoints[k][1], all_waypoints[k][2], waypoint)],
     intersecting_lanes |-> <<>>,
     contact_areas |-> <<>>,
     landmarks |-> <<>>]

get_data_lane_for_waypoint(w, waypoint) ==
    DataLane(waypoint,
             get_length_of_lane(w, waypoint, LengthPrecision),
             get_all_waypoints_for_lane(w, waypoint, MidpointPrecision))

----------------------------------------------------------------------------
(* Contact-Area Calculator *)

Abs(a) == IF a < 0 THEN -a ELSE a
Max(a, b) == IF a >= b THEN a ELSE b
Min(a, b) == IF a <= b THEN a ELSE b

RECURSIVE Gcd(_, _)
Gcd(a, b) == IF b = 0 THEN a ELSE Gcd(b, a % b)

\* A DataLocation whose coordinates are the rationals x / z and y / z (z > 0,
\* lowest terms).  ok = FALSE stands for Python's None.
NoLocation == [ok |-> FALSE, x |-> 0, y |-> 0, z |-> 1]

Scaled(x, y, z, g) == [ok |-> TRUE, x |-> x \div g, y |-> y \div g, z |-> z \div g]

Positive(x, y, z) ==
    IF z < 0 THEN Scaled(-x, -y, -z, Gcd(Gcd(Abs(x), Abs(y)), Abs(z)))
    ELSE Scaled(x, y, z, Gcd(Gcd(Abs(x), Abs(y)), Abs(z)))

\* variant: without the test on z, parallel lines yield a point as well
PointOfIgnoringParallel(p) == Positive(p[1], p[2], IF p[3] = 0 THEN 1 ELSE p[3])

\* x, y, z = np.cross(l1, l2); None when z == 0, else DataLocation(x / z, y / z, 0)
PointOf(p) == IF p[3] = 0 THEN NoLocation ELSE Positive(p[1], p[2], p[3])

\* np.cross of two 3-vectors
Cross3(a, b) ==
    <<a[2] * b[3] - a[3] * b[2], a[3] * b[1] - a[1] * b[3], a[1] * b[2] - a[2] * b[1]>>

Homogeneous(p) == <<p[1], p[2], 1>>

get_intersect(lane_1_start, lane_1_end, lane_2_start, lane_2_end) ==
    PointOf(Cross3(Cross3(Homogeneous(lane_1_start), Homogeneous(lane_1_end)),
                   Cross3(Homogeneous(lane_2_start), Homogeneous(lane_2_end))))

\* the three tests of is_between on cross_product, dot_product and
\* squared_length_ba, every comparison multiplied by the denominator z > 0 of
\* point_to_check
BetweenTests(cross_product, dot_product, squared_length_ba, z) ==
    IF Abs(cross_product) > BetweenTolerance * z THEN FALSE
    ELSE IF dot_product < 0 THEN FALSE
    ELSE IF dot_product > squared_length_ba * z THEN FALSE
    ELSE TRUE

\* dx, dy: point_to_check - from_point and tx, ty: to_point - from_point
BetweenVectors(dx, dy, tx, ty, z) ==
    BetweenTests(dy * tx - dx * ty, dx * tx + dy * ty, tx * tx + ty * ty, z)

is_between(from_point, to_point, point_to_check) ==
    BetweenVectors(point_to_check.x - from_point[1] * point_to_check.z,
                   point_to_check.y - from_point[2] * point_to_check.z,
                   to_point[1] - from_point[1],
                   to_point[2] - from_point[2],
                   point_to_check.z)

SquaredNorm(dx, dy) == dx * dx + dy * dy

\* distance_between(midpoint, point): the squared Euclidean distance times
\* point.z^2, which orders the midpoints of one call as the norm does.
distance_between(from_point, to_point) ==
    SquaredNorm(to_point.x - from_point[1] * to_point.z,
                to_point.y - from_point[2] * to_point.z)

\* one pass of the loop of get_distance_to_start_of_lane: a midpoint strictly
\* closer than those before replaces them (min_distance -1 is float("inf"))
NearestStep(lane_midpoint, relative_distance, st) ==
    IF st.min_distance = -1 \/ relative_distance < st.min_distance
    THEN [min_distance |-> relative_distance,
          minimum_distance |-> lane_midpoint.distance_to_start]
    ELSE st

\* the loop over lane.lane_midpoints[lo..hi] in order, `st` being the loop's
\* variables before midpoint lo.  The range is walked in halves, left before
\* right; after a midpoint at distance 0 no later one is strictly closer, so
\* the rest of the range leaves `st` as it is.
RECURSIVE NearestFrom(_, _, _, _, _)
NearestFrom(midpoints, lo, hi, point, st) ==
    IF st.min_distance = 0 \/ lo > hi THEN st
    ELSE IF lo = hi
    THEN NearestStep(midpoints[lo], distance_between(midpoints[lo].location, point), st)
    ELSE NearestFrom(midpoints, ((lo + hi) \div 2) + 1, hi, point,
                     NearestFrom(midpoints, lo, (lo + hi) \div 2, point, st))

get_distance_to_start_of_lane(lane, point) ==
    NearestFrom(lane.lane_midpoints, 1, Len(lane.lane_midpoints), point,
                [min_distance |-> -1, minimum_distance |-> -1]).minimum_distance

\* distance_to_start % 1.0 == 0
IsStation(midpoint) == midpoint.distance_to_start % StationStep = 0

\* the early return of get_intersection_of_lanes (line 331)
SameLaneGuard(lane_1, lane_2) ==
    lane_1.road_id = lane_2.road_id /\ lane_1.road_id = lane_2.lane_id

\* lines 349-354: the crossing point counts when it lies on both segments
AcceptCrossing(lane_1_start, lane_1_end, lane_2_start, lane_2_end, crossing_point) ==
    IF crossing_point.ok
       /\ is_between(lane_1_start, lane_1_end, crossing_point)
       /\ is_between(lane_2_start, lane_2_end, crossing_point)
    THEN crossing_point
    ELSE NoLocation

SegmentCrossing(lane_1_start, lane_1_end, lane_2_start, lane_2_end) ==
    AcceptCrossing(lane_1_start, lane_1_end, lane_2_start, lane_2_end,
                   get_intersect(lane_1_start, lane_1_end, lane_2_start, lane_2_end))

\* the body of the double loop for one index pair (0-based as in the source):
\* the indices count the stations but select from all the midpoints
CrossingAt(lane_1, lane_2, index_lane_1, index_lane_2) ==
    IF index_lane_1 # Len(lane_1.lane_midpoints) - 1 /\ index_lane_2 # Len(lane_2.lane_midpoints) - 1
    THEN SegmentCrossing(lane_1.lane_midpoints[index_lane_1 + 1].location,
                         lane_1.lane_midpoints[index_lane_1 + 2].location,
                         lane_2.lane_midpoints[index_lane_2 + 1].location,
                         lane_2.lane_midpoints[index_lane_2 + 2].location)
    ELSE NoLocation

\* the index pairs at which the double loop would return
Hits(lane_1, lane_2, lane_1_midpoints, lane_2_midpoints) ==
    {h \in (0..(Len(lane_1_midpoints) - 1)) \X (0..(Len(lane_2_midpoints) - 1)) :
        CrossingAt(lane_1, lane_2, h[1], h[2]).ok}

\* the first of them in loop order: lane 1 ascending, lane 2 nested
FirstHit(hits) ==
    CHOOSE h \in hits : \A g \in hits : h[1] < g[1] \/ (h[1] = g[1] /\ h[2] <= g[2])

CrossingAtPair(lane_1, lane_2, h) == CrossingAt(lane_1, lane_2, h[1], h[2])

FirstCrossing(lane_1, lane_2, hits) ==
    IF hits = {} THEN NoLocation ELSE CrossingAtPair(lane_1, lane_2, FirstHit(hits))

get_intersection_of_lanes(lane_1, lane_2) ==
    IF SameLaneGuard(lane_1, lane_2) THEN NoLocation
    ELSE FirstCrossing(lane_1, lane_2,
                       Hits(lane_1, lane_2,
                            SelectSeq(lane_1.lane_midpoints, IsStation),
                            SelectSeq(lane_2.lane_midpoints, IsStation)))

\* f"{lane_1.road_id}_{lane_1.lane_id}+{lane_2.road_id}_{lane_2.lane_id}"
ContactAreaId(lane_1, lane_2) ==
    ToString(lane_1.road_id) \o "_" \o ToString(lane_1.lane_id) \o "+"
        \o ToString(lane_2.road_id) \o "_" \o ToString(lane_2.lane_id)

\* float(max(0.0, start_pos - CONTACT_AREA_MARGIN))
WindowStart(start_pos) == Max(0, start_pos - CONTACT_AREA_MARGIN)

\* variant: the end of the window without the clamp to lane_length
WindowEndNoClamp(lane_length, start_pos) == start_pos + CONTACT_AREA_MARGIN

\* float(min(lane.lane_length, start_pos + CONTACT_AREA_MARGIN))
WindowEnd(lane_length, start_pos) == Min(lane_length, start_pos + CONTACT_AREA_MARGIN)

\* lines 315-338 of from_lanes, after the lanes are ordered
DataContactArea(contact_location, lane_1, start_pos_lane_1, lane_2, start_pos_lane_2) ==
    [id |-> ContactAreaId(lane_1, lane_2),
     contact_location |-> contact_location,
     lane_1_road_id |-> lane_1.road_id,
     lane_1_id |-> lane_1.lane_id,
     lane_1_start_pos |-> WindowStart(start_pos_lane_1),
     lane_1_end_pos |-> WindowEnd(lane_1.lane_length, start_pos_lane_1),
     lane_2_road_id |-> lane_2.road_id,
     lane_2_id |-> lane_2.lane_id,
     lane_2_start_pos |-> WindowStart(start_pos_lane_2),
     lane_2_end_pos |-> WindowEnd(lane_2.lane_length, start_pos_lane_2)]

\* "Check if the lanes have to be switched"
SwitchLanes(lane_1, lane_2) == lane_2.road_id < lane_1.road_id

\* variant: the lanes are switched, their distances are not
from_lanes_keeping_distances(contact_location, lane_1, start_pos_lane_1, lane_2, start_pos_lane_2) ==
    IF SwitchLanes(lane_1, lane_2)
    THEN DataContactArea(contact_location, lane_2, start_pos_lane_1, lane_1, start_pos_lane_2)
    ELSE DataContactArea(contact_location, lane_1, start_pos_lane_1, lane_2, start_pos_lane_2)

\* DataContactArea.from_lanes
from_lanes(contact_location, lane_1, start_pos_lane_1, lane_2, start_pos_lane_2) ==
    IF SwitchLanes(lane_1, lane_2)
    THEN DataContactArea(contact_location, lane_2, start_pos_lane_2, lane_1, start_pos_lane_1)
    ELSE DataContactArea(contact_location, lane_1, start_pos_lane_1, lane_2, start_pos_lane_2)

DataContactLaneInfo(r, l) == [road_id |-> r, lane_id |-> l]

----------------------------------------------------------------------------
(* Road/Block Graph Builder *)

\* the two `continue` tests of the pair loop (lines 255-258)
SkipPair(lane, intersection_check_lane) ==
    \/ lane = intersection_check_lane
    \/ (lane.lane_id = intersection_check_lane.lane_id
        /\ lane.road_id = intersection_check_lane.road_id)

\* lane.intersecting_lanes.append(data_contact_lane_info)
AppendContactLaneInfo(intersecting_lanes, info) == Append(intersecting_lanes, info)

\* variant: the contact area is appended twice
AppendContactAreaTwice(contact_areas, contact_area) ==
    Append(Append(contact_areas, contact_area), contact_area)

\* lane.contact_areas.append(contact_area)
AppendContactArea(contact_areas, contact_area) == Append(contact_areas, contact_area)

\* lines 262-276: what a found intersection point appends to the lane
RecordCrossing(lane, intersection_check_lane, intersection_point) ==
    IF intersection_point.ok
    THEN [lane EXCEPT
             !.intersecting_lanes = AppendContactLaneInfo(@,
                 DataContactLaneInfo(intersection_check_lane.road_id,
                                     intersection_check_lane.lane_id)),
             !.contact_areas = AppendContactArea(@,
                 from_lanes(intersection_point,
                            lane,
                            get_distance_to_start_of_lane(lane, intersection_point),
                            intersection_check_lane,
                            get_distance_to_start_of_lane(intersection_check_lane,
                                                          intersection_point)))]
    ELSE lane

\* the body of the pair loop (lines 254-276)
CheckPair(lane, intersection_check_lane) ==
    IF SkipPair(lane, intersection_check_lane) THEN lane
    ELSE RecordCrossing(lane, intersection_check_lane,
                        get_intersection_of_lanes(lane, intersection_check_lane))

\* the inner loop for one lane; `lane` carries what the loop has appended
RECURSIVE IntersectLoop(_, _, _)
IntersectLoop(block_lanes, b, lane) ==
    IF b > Len(block_lanes) THEN lane
    ELSE IntersectLoop(block_lanes, b + 1, CheckPair(lane, block_lanes[b]))

\* the outer loop (line 252)
IntersectAll(block_lanes) ==
    [a \in 1..Len(block_lanes) |-> IntersectLoop(block_lanes, 1, block_lanes[a])]

\* road_ids: the road ids of the junction's samples in order of discovery
RECURSIVE DiscoverRoadIds(_, _)
DiscoverRoadIds(waypoints, road_ids) ==
    IF waypoints = <<>> THEN road_ids
    ELSE DiscoverRoadIds(Tail(waypoints),
                         IF \E k \in 1..Len(road_ids) : road_ids[k] = Head(waypoints).road_id
                         THEN road_ids
                         ELSE Append(road_ids, Head(waypoints).road_id))

DataRoad(r, road_lanes, junction) ==
    [road_id |-> r, is_junction |-> junction, lanes |-> road_lanes]

\* road_is_junction[road_id]: is_junction of the last sample of the road
RoadIsJunction(waypoints, r) ==
    \E k \in 1..Len(waypoints) :
        /\ waypoints[k].road_id = r
        /\ \A j \in (k + 1)..Len(waypoints) : waypoints[j].road_id # r
        /\ IsJunction(waypoints[k])

\* variant: every road is given the lanes of the whole junction
LanesOfEveryRoad(block_lanes, r) == block_lanes

\* roads[road_id]: the lanes of the road in the order of the samples
LanesOfRoad(block_lanes, r) == SelectSeq(block_lanes, LAMBDA lane : lane.road_id = r)

\* the loop of lines 244-250
RoadsList(waypoints, road_ids, block_lanes) ==
    [k \in 1..Len(road_ids) |->
        DataRoad(road_ids[k], LanesOfRoad(block_lanes, road_ids[k]),
                 RoadIsJunction(waypoints, road_ids[k]))]

\* the lanes built in the loop of lines 227-243
BuildLanes(w, waypoints) ==
    [k \in 1..Len(waypoints) |-> get_data_lane_for_waypoint(w, waypoints[k])]

RoadsOfWaypoints(w, waypoints) ==
    RoadsList(waypoints, DiscoverRoadIds(waypoints, <<>>), IntersectAll(BuildLanes(w, waypoints)))

get_data_roads_for_junction(w) == RoadsOfWaypoints(w, junction_get_waypoints(w))

\* variant: every sample of the road is kept
RelevantWaypointsUnfiltered(lane_waypoints, relevant_waypoints) ==
    relevant_waypoints \o lane_waypoints

\* relevant_waypoints: the first sample of every lane_id (lines 201-210)
RECURSIVE RelevantWaypoints(_, _)
RelevantWaypoints(lane_waypoints, relevant_waypoints) ==
    IF lane_waypoints = <<>> THEN relevant_waypoints
    ELSE RelevantWaypoints(Tail(lane_waypoints),
                           IF \E k \in 1..Len(relevant_waypoints) :
                                  relevant_waypoints[k].lane_id = Head(lane_waypoints).lane_id
                           THEN relevant_waypoints
                           ELSE Append(relevant_waypoints, Head(lane_waypoints)))

get_data_road_for_waypoints(w, waypoint, waypoints) ==
    DataRoad(waypoint.road_id,
             BuildLanes(w, RelevantWaypoints(
                 SelectSeq(waypoints, LAMBDA wp : wp.road_id = waypoint.road_id), <<>>)),
             IsJunction(waypoint))

block_contains_waypoint(data_block, waypoint) ==
    \E k \in 1..Len(data_block.roads) : data_block.roads[k].road_id = waypoint.road_id

\* "-".join(road_ids) over the decimal strings of the road ids
RECURSIVE Join(_)
Join(road_ids) ==
    IF road_ids = <<>> THEN ""
    ELSE IF Len(road_ids) = 1 THEN ToString(road_ids[1])
    ELSE ToString(Head(road_ids)) \o "-" \o Join(Tail(road_ids))

DataBlock(block_id, data_roads) == [id |-> block_id, roads |-> data_roads]

\* lines 108-110
JunctionDataBlock(data_roads) ==
    DataBlock(Join([k \in 1..Len(data_roads) |-> data_roads[k].road_id]), data_roads)

\* line 115
RoadDataBlock(data_road) == DataBlock(ToString(data_road.road_id), <<data_road>>)

waypoint_list == generate_waypoints(world, SampleDistance)

already_processed(waypoint) ==
    \E k \in 1..Len(data_blocks) : block_contains_waypoint(data_blocks[k], waypoint)

\* one iteration of the loop of get_data_blocks: the sample is already covered
SkipWaypoint ==
    /\ pc = "blocks"
    /\ wi < Len(waypoint_list)
    /\ already_processed(waypoint_list[wi + 1])
    /\ wi' = wi + 1
    /\ UNCHANGED <<world, pc, data_blocks, self_blocks, landmarks, li, landmark_s>>
    /\ UNCHANGED cache_vars
    /\ UNCHANGED calc_vars
    /\ UNCHANGED walk_vars

\* one iteration: the sample belongs to a junction
JunctionBlock ==
    /\ pc = "blocks"
    /\ wi < Len(waypoint_list)
    /\ ~already_processed(waypoint_list[wi + 1])
    /\ IsJunction(waypoint_list[wi + 1])
    /\ data_blocks' = Append(data_blocks, JunctionDataBlock(get_data_roads_for_junction(world)))
    /\ wi' = wi + 1
    /\ UNCHANGED <<world, pc, self_blocks, landmarks, li, landmark_s>>
    /\ UNCHANGED cache_vars
    /\ UNCHANGED calc_vars
    /\ UNCHANGED walk_vars

\* one iteration: the sample belongs to a multi-lane road
RoadBlock ==
    /\ pc = "blocks"
    /\ wi < Len(waypoint_list)
    /\ ~already_processed(waypoint_list[wi + 1])
    /\ ~IsJunction(waypoint_list[wi + 1])
    /\ data_blocks' = Append(data_blocks,
           RoadDataBlock(get_data_road_for_waypoints(world, waypoint_list[wi + 1],
                                                     waypoint_list)))
    /\ wi' = wi + 1
    /\ UNCHANGED <<world, pc, self_blocks, landmarks, li, landmark_s>>
    /\ UNCHANGED cache_vars
    /\ UNCHANGED calc_vars
    /\ UNCHANGED walk_vars

----------------------------------------------------------------------------
(* Landmark Attacher *)

Landmark(i, r, pos, validities) ==
    [id |-> i, road_id |-> r, s |-> pos, lane_validities |-> validities]

\* The landmarks a map may carry: one valid for both lanes of road 3, one on a
\* road the map does not have, one covering lane -1 of road 1 by two
\* intervals, one valid for the positive lane of road 3 only.
LandmarkPool ==
    { Landmark(1, 3, 5, << <<-1, 1>> >>),
      Landmark(2, 9, 4, << <<-1, -1>> >>),
      Landmark(3, 1, 3, << <<-2, -1>>, <<-1, -1>> >>),
      Landmark(4, 3, 7, << <<1, 1>> >>) }

is_lane_valid_for_landmark(landmark, data_lane) ==
    \E k \in 1..Len(landmark.lane_validities) :
        /\ landmark.lane_validities[k][1] <= data_lane.lane_id
        /\ data_lane.lane_id <= landmark.lane_validities[k][2]

\* the positions <<block, road>> of the roads with the given id
RoadPositions(blocks, road_id) ==
    {p \in (1..Len(blocks)) \X (1..Cardinality(JunctionLaneKeys)) :
        /\ p[2] <= Len(blocks[p[1]].roads)
        /\ blocks[p[1]].roads[p[2]].road_id = road_id}

\* the first road in the order of the two loops, <<0, 0>> for None
FirstRoad(found) ==
    IF found = {} THEN <<0, 0>>
    ELSE CHOOSE p \in found : \A q \in found : p[1] < q[1] \/ (p[1] = q[1] /\ p[2] <= q[2])

get_specific_road_from_blocks(blocks, road_id) == FirstRoad(RoadPositions(blocks, road_id))

\* data_landmark.s = lane.lane_length - data_landmark.s
FlipS(lane_length, s) == lane_length - s

\* one pass of the loop over data_road.lanes (lines 139-144); k is the
\* DataLandmark object and st.s its field s, which all the lanes holding k share
AttachStep(landmark, k, i, st) ==
    IF is_lane_valid_for_landmark(landmark, st.lanes[i])
    THEN [lanes |-> [st.lanes EXCEPT ![i].landmarks = Append(@, k)],
          s |-> IF st.lanes[i].lane_id > 0
                THEN FlipS(st.lanes[i].lane_length, st.s) ELSE st.s]
    ELSE st

RECURSIVE AttachLoop(_, _, _, _)
AttachLoop(landmark, k, i, st) ==
    IF i > Len(st.lanes) THEN st
    ELSE AttachLoop(landmark, k, i + 1, AttachStep(landmark, k, i, st))

\* variant: add_landmarks_to_lanes called from inside the loop over the samples
BeginLandmarksEarly ==
    /\ pc = "blocks"
    /\ calls <= 1
    /\ self_blocks' = data_blocks
    /\ landmarks' \in SeqsUpTo(LandmarkPool, MaxLandmarks)
    /\ li' = 0
    /\ pc' = "landmarks"
    /\ UNCHANGED <<world, wi, data_blocks, landmark_s>>
    /\ UNCHANGED cache_vars
    /\ UNCHANGED calc_vars
    /\ UNCHANGED walk_vars

\* self._blocks = data_blocks; add_landmarks_to_lanes reads the landmarks
BeginLandmarks ==
    /\ pc = "blocks"
    /\ wi = Len(waypoint_list)
    /\ calls <= 1
    /\ self_blocks' = data_blocks
    /\ landmarks' \in SeqsUpTo(LandmarkPool, MaxLandmarks)
    /\ li' = 0
    /\ pc' = "landmarks"
    /\ UNCHANGED <<world, wi, data_blocks, landmark_s>>
    /\ UNCHANGED cache_vars
    /\ UNCHANGED calc_vars
    /\ UNCHANGED walk_vars

\* the lanes of the road at position `at` replaced; self._blocks is the same
\* list object as data_blocks
StoreAttached(at, st) ==
    /\ data_blocks' = [data_blocks EXCEPT ![at[1]].roads[at[2]].lanes = st.lanes]
    /\ self_blocks' = data_blocks'
    /\ landmark_s' = Append(landmark_s, st.s)

AttachAt(landmark, at) ==
    /\ at # <<0, 0>>
    /\ StoreAttached(at, AttachLoop(landmark, li + 1, 1,
           [lanes |-> data_blocks[at[1]].roads[at[2]].lanes, s |-> landmark.s]))

\* one iteration of the loop of add_landmarks_to_lanes whose road is found
AttachLandmark ==
    /\ pc = "landmarks"
    /\ li < Len(landmarks)
    /\ AttachAt(landmarks[li + 1],
                get_specific_road_from_blocks(data_blocks, landmarks[li + 1].road_id))
    /\ li' = li + 1
    /\ UNCHANGED <<world, pc, wi, landmarks>>
    /\ UNCHANGED cache_vars
    /\ UNCHANGED calc_vars
    /\ UNCHANGED walk_vars

\* one iteration whose road is not in the graph: `return`
LandmarkRoadMissing ==
    /\ pc = "landmarks"
    /\ li < Len(landmarks)
    /\ get_specific_road_from_blocks(data_blocks, landmarks[li + 1].road_id) = <<0, 0>>
    /\ landmark_s' = Append(landmark_s, landmarks[li + 1].s)
    /\ pc' = "done"
    /\ UNCHANGED <<world, wi, data_blocks, self_blocks, landmarks, li>>
    /\ UNCHANGED cache_vars
    /\ UNCHANGED calc_vars
    /\ UNCHANGED walk_vars

\* the loop is exhausted: get_data_blocks returns data_blocks
FinishLandmarks ==
    /\ pc = "landmarks"
    /\ li = Len(landmarks)
    /\ pc' = "done"
    /\ UNCHANGED <<world, wi, data_blocks, self_blocks, landmarks, li, landmark_s>>
    /\ UNCHANGED cache_vars
    /\ UNCHANGED calc_vars
    /\ UNCHANGED walk_vars

----------------------------------------------------------------------------

(* Block-Graph Cache: load_or_calculate_data_blocks and the spatial index *)

\* no pair of lanes in hand
NoLane == <<>>

\* the contents of a file: absent, a text json.loads or from_list rejects, or
\* the JSON text of a list of blocks
NoFile == [exists |-> FALSE, valid |-> FALSE, blocks |-> <<>>]
InvalidJson == [exists |-> TRUE, valid |-> FALSE, blocks |-> <<>>]

\* a DataLandmark object written out by value
LandmarkToJson(lms, ss, k) ==
    [id |-> lms[k].id, road_id |-> lms[k].road_id, s |-> ss[k]]

LaneToJson(lane, lms, ss) ==
    [lane EXCEPT !.landmarks =
        [i \in 1..Len(lane.landmarks) |-> LandmarkToJson(lms, ss, lane.landmarks[i])]]

RoadToJson(road, lms, ss) ==
    [road EXCEPT !.lanes = [i \in 1..Len(road.lanes) |-> LaneToJson(road.lanes[i], lms, ss)]]

BlockToJson(block, lms, ss) ==
    [block EXCEPT !.roads = [i \in 1..Len(block.roads) |-> RoadToJson(block.roads[i], lms, ss)]]

\* DataBlock.list_to_json(blocks): the text log_data_blocks writes
list_to_json(blocks, lms, ss) ==
    [exists |-> TRUE, valid |-> TRUE,
     blocks |-> [b \in 1..Len(blocks) |-> BlockToJson(blocks[b], lms, ss)]]

\* DataBlock.from_list(json.loads(text)) on a text that parses
from_list(file) == file.blocks

\* a graph an earlier run has persisted: the Block of road 3 of the map
StoredGraph(w) ==
    <<RoadDataBlock(get_data_road_for_waypoints(w, Waypoint(3, -1, 0),
                                                generate_waypoints(w, SampleDistance)))>>

ArchiveStates(w) == {NoFile, InvalidJson, list_to_json(StoredGraph(w), <<>>, <<>>)}

\* getLaneMidpointsArray over the given blocks
LanesOfBlocks(blocks) ==
    flatten([r \in 1..Len(flatten([b \in 1..Len(blocks) |-> blocks[b].roads])) |->
                flatten([b \in 1..Len(blocks) |-> blocks[b].roads])[r].lanes])

getLaneMidpointsArray(blocks) ==
    flatten([l \in 1..Len(LanesOfBlocks(blocks)) |-> LanesOfBlocks(blocks)[l].lane_midpoints])

\* KDTree(lane_midpoint_locations); self._kd_tree is None until then
NoTree == [built |-> FALSE, data |-> <<>>]
KDTree(midpoints) ==
    [built |-> TRUE, data |-> [i \in 1..Len(midpoints) |-> midpoints[i].location]]

PointDistance(a, b) == SquaredNorm(a[1] - b[1], a[2] - b[2])

\* self._kd_tree.query(point): the index of a nearest point of the tree
RECURSIVE QueryFrom(_, _, _, _)
QueryFrom(data, point, i, best) ==
    IF i > Len(data) THEN best
    ELSE QueryFrom(data, point, i + 1,
                   IF PointDistance(data[i], point) < PointDistance(data[best], point)
                   THEN i ELSE best)

\* get_closest_lane_midpoint(location); found = FALSE stands for the
\* exception of a query on None or of an index beyond the list
get_closest_lane_midpoint(location) ==
    IF ~kd_tree.built \/ Len(kd_tree.data) = 0
    THEN [found |-> FALSE, location |-> location]
    ELSE [found |-> TRUE,
          location |-> lane_midpoints[QueryFrom(kd_tree.data, location, 1, 1)].location]

\* lines 68-72: the index over the midpoints of self._blocks
BuildIndex(blocks) ==
    /\ lane_midpoints' = getLaneMidpointsArray(blocks)
    /\ kd_tree' = KDTree(getLaneMidpointsArray(blocks))

\* variant: the archive is looked up before the blocks in memory are returned
ReturnExistingAfterLookup ==
    /\ pc = "idle"
    /\ calls < MaxCalls
    /\ Len(self_blocks) > 0
    /\ calls' = calls + 1
    /\ caller' = "load"
    /\ outcome' = "returned"
    /\ io' = <<"exists">>
    /\ UNCHANGED <<build_vars, update_existing, zip_file, json_file, kd_tree, lane_midpoints>>
    /\ UNCHANGED calc_vars
    /\ UNCHANGED walk_vars

\* a client calls load_or_calculate_data_blocks while the blocks are in
\* memory (lines 45-47)
ReturnExisting ==
    /\ pc = "idle"
    /\ calls < MaxCalls
    /\ Len(self_blocks) > 0
    /\ calls' = calls + 1
    /\ caller' = "load"
    /\ outcome' = "returned"
    /\ io' = <<>>
    /\ UNCHANGED <<build_vars, update_existing, zip_file, json_file, kd_tree,
                   lane_midpoints>>
    /\ UNCHANGED calc_vars
    /\ UNCHANGED walk_vars

\* lines 53-58: no archive, or update_existing: get_data_blocks is entered
CalculateBlocks ==
    /\ pc = "idle"
    /\ calls < MaxCalls
    /\ Len(self_blocks) = 0
    /\ \E update \in BOOLEAN :
           /\ ~zip_file.exists \/ update
           /\ update_existing' = update
    /\ calls' = calls + 1
    /\ io' = <<"exists">>
    /\ caller' = "load"
    /\ outcome' = "none"
    /\ pc' = "blocks"
    /\ wi' = 0
    /\ li' = 0
    /\ data_blocks' = <<>>
    /\ landmark_s' = <<>>
    /\ UNCHANGED <<world, self_blocks, landmarks, zip_file, json_file, kd_tree, lane_midpoints>>
    /\ UNCHANGED calc_vars
    /\ UNCHANGED walk_vars

\* lines 58-72 once get_data_blocks has returned: save, zip, delete, index
SaveBlocks ==
    /\ pc = "done"
    /\ caller = "load"
    /\ pc' = "idle"
    /\ self_blocks' = data_blocks
    /\ IF Len(data_blocks) = 0
       THEN /\ outcome' = "raised"
            /\ UNCHANGED <<zip_file, json_file, kd_tree, lane_midpoints, io>>
       ELSE /\ zip_file' = list_to_json(data_blocks, landmarks, landmark_s)
            /\ json_file' = NoFile
            /\ io' = io \o <<"write_json", "write_zip", "delete_json">>
            /\ BuildIndex(data_blocks)
            /\ outcome' = "returned"
    /\ UNCHANGED <<world, wi, data_blocks, landmarks, li, landmark_s, caller, update_existing,
                   calls>>
    /\ UNCHANGED calc_vars
    /\ UNCHANGED walk_vars

\* variant: the extracted .json file is left on disk after loading
LoadBlocksKeepingJson ==
    /\ pc = "idle"
    /\ calls < MaxCalls
    /\ Len(self_blocks) = 0
    /\ zip_file.exists
    /\ zip_file.valid
    /\ calls' = calls + 1
    /\ caller' = "load"
    /\ update_existing' = FALSE
    /\ self_blocks' = from_list(zip_file)
    /\ json_file' = zip_file
    /\ io' = <<"exists", "extract_zip", "read_json", "delete_json">>
    /\ BuildIndex(from_list(zip_file))
    /\ outcome' = "returned"
    /\ UNCHANGED <<world, pc, wi, data_blocks, landmarks, li, landmark_s, zip_file>>
    /\ UNCHANGED calc_vars
    /\ UNCHANGED walk_vars

\* lines 61-72: the archive exists and update_existing is false
LoadBlocks ==
    /\ pc = "idle"
    /\ calls < MaxCalls
    /\ Len(self_blocks) = 0
    /\ zip_file.exists
    /\ zip_file.valid
    /\ calls' = calls + 1
    /\ caller' = "load"
    /\ update_existing' = FALSE
    /\ self_blocks' = from_list(zip_file)
    /\ json_file' = NoFile
    /\ io' = <<"exists", "extract_zip", "read_json", "delete_json">>
    /\ BuildIndex(from_list(zip_file))
    /\ outcome' = "returned"
    /\ UNCHANGED <<world, pc, wi, data_blocks, landmarks, li, landmark_s, zip_file>>
    /\ UNCHANGED calc_vars
    /\ UNCHANGED walk_vars

\* lines 61-64 on an archive whose text does not deserialize: load_data_blocks
\* raises and nothing catches it
LoadFails ==
    /\ pc = "idle"
    /\ calls < MaxCalls
    /\ Len(self_blocks) = 0
    /\ zip_file.exists
    /\ ~zip_file.valid
    /\ calls' = calls + 1
    /\ caller' = "load"
    /\ update_existing' = FALSE
    /\ json_file' = zip_file
    /\ io' = <<"exists", "extract_zip", "read_json">>
    /\ outcome' = "raised"
    /\ UNCHANGED <<build_vars, zip_file, kd_tree, lane_midpoints>>
    /\ UNCHANGED calc_vars
    /\ UNCHANGED walk_vars

\* variant: save_data_blocks without the test on self._blocks
CallSaveDataBlocksUnchecked ==
    /\ pc = "idle"
    /\ calls < MaxCalls
    /\ calls' = calls + 1
    /\ caller' = "save"
    /\ json_file' = list_to_json(self_blocks, landmarks, landmark_s)
    /\ io' = <<"write_json">>
    /\ outcome' = "returned"
    /\ UNCHANGED <<build_vars, update_existing, zip_file, kd_tree, lane_midpoints>>
    /\ UNCHANGED calc_vars
    /\ UNCHANGED walk_vars

\* a client calls save_data_blocks with the path of the .json file (lines 32-38)
CallSaveDataBlocks ==
    /\ pc = "idle"
    /\ calls < MaxCalls
    /\ calls' = calls + 1
    /\ caller' = "save"
    /\ IF Len(self_blocks) = 0
       THEN /\ outcome' = "raised"
            /\ io' = <<>>
            /\ UNCHANGED json_file
       ELSE /\ json_file' = list_to_json(self_blocks, landmarks, landmark_s)
            /\ io' = <<"write_json">>
            /\ outcome' = "returned"
    /\ UNCHANGED <<build_vars, update_existing, zip_file, kd_tree, lane_midpoints>>
    /\ UNCHANGED calc_vars
    /\ UNCHANGED walk_vars

\* a client calls get_data_blocks itself
CallGetDataBlocks ==
    /\ pc = "idle"
    /\ calls < MaxCalls
    /\ calls' = calls + 1
    /\ caller' = "direct"
    /\ outcome' = "none"
    /\ pc' = "blocks"
    /\ wi' = 0
    /\ li' = 0
    /\ data_blocks' = <<>>
    /\ landmark_s' = <<>>
    /\ UNCHANGED <<world, self_blocks, landmarks, update_existing, zip_file, json_file,
                   kd_tree, lane_midpoints, io>>
    /\ UNCHANGED calc_vars
    /\ UNCHANGED walk_vars

\* get_data_blocks returns to the client
ReturnDataBlocks ==
    /\ pc = "done"
    /\ caller = "direct"
    /\ pc' = "idle"
    /\ outcome' = "returned"
    /\ UNCHANGED <<caller, world, wi, data_blocks, self_blocks, landmarks, li, landmark_s,
                   update_existing, zip_file, json_file, kd_tree, lane_midpoints, calls, io>>
    /\ UNCHANGED calc_vars
    /\ UNCHANGED walk_vars

\* variant: what was built so far is persisted when the query raises
MapQueryFailsPersisting ==
    /\ pc = "blocks"
    /\ pc' = "idle"
    /\ outcome' = "raised"
    /\ wi' = 0
    /\ data_blocks' = <<>>
    /\ zip_file' = list_to_json(data_blocks, landmarks, landmark_s)
    /\ io' = io \o <<"write_json", "write_zip", "delete_json">>
    /\ UNCHANGED <<world, self_blocks, landmarks, li, landmark_s, caller, update_existing,
                   json_file, kd_tree, lane_midpoints, calls>>
    /\ UNCHANGED calc_vars
    /\ UNCHANGED walk_vars

\* a query of the map service raises inside the sample loop (lines 94-116):
\* the exception leaves get_data_blocks and its caller
MapQueryFails ==
    /\ pc = "blocks"
    /\ pc' = "idle"
    /\ outcome' = "raised"
    /\ wi' = 0
    /\ data_blocks' = <<>>
    /\ UNCHANGED <<caller, world, self_blocks, landmarks, li, landmark_s, update_existing, zip_file,
                   json_file, kd_tree, lane_midpoints, calls, io>>
    /\ UNCHANGED calc_vars
    /\ UNCHANGED walk_vars

\* get_all_landmarks raises in add_landmarks_to_lanes (line 130), after
\* self._blocks = data_blocks
LandmarkQueryFails ==
    /\ pc = "blocks"
    /\ wi = Len(waypoint_list)
    /\ self_blocks' = data_blocks
    /\ pc' = "idle"
    /\ outcome' = "raised"
    /\ UNCHANGED <<caller, world, wi, data_blocks, landmarks, li, landmark_s, update_existing,
                   zip_file, json_file, kd_tree, lane_midpoints, calls, io>>
    /\ UNCHANGED calc_vars
    /\ UNCHANGED walk_vars

\* add_landmarks_to_lanes of a later call reads the same landmarks of the map
BeginLandmarksAgain ==
    /\ pc = "blocks"
    /\ wi = Len(waypoint_list)
    /\ calls > 1
    /\ self_blocks' = data_blocks
    /\ li' = 0
    /\ pc' = "landmarks"
    /\ UNCHANGED <<world, wi, data_blocks, landmarks, landmark_s>>
    /\ UNCHANGED cache_vars
    /\ UNCHANGED calc_vars
    /\ UNCHANGED walk_vars

----------------------------------------------------------------------------

\* no get_all_waypoints_for_lane of its own is running
NoMap == [next |-> <<>>, previous |-> <<>>]

WalkOff ==
    /\ lane_map = NoMap
    /\ walk_pc = "off"
    /\ walk_ref = Waypoint(0, 0, 0)
    /\ walk_lane = Waypoint(0, 0, 0)
    /\ walk_list = <<>>
    /\ walk_has = FALSE
    /\ walk_back = <<>>
    /\ walk_result = <<>>

Init ==
    /\ world \in Worlds
    /\ pc = "blocks"
    /\ wi = 0
    /\ data_blocks = <<>>
    /\ self_blocks = <<>>
    /\ landmarks = <<>>
    /\ li = 0
    /\ landmark_s = <<>>
    /\ caller = "direct"
    /\ update_existing = FALSE
    /\ zip_file = NoFile
    /\ json_file = NoFile
    /\ kd_tree = NoTree
    /\ lane_midpoints = <<>>
    /\ outcome = "none"
    /\ calls = 1
    /\ io = <<>>
    /\ loop_lane = NoLane
    /\ loop_check_lane = NoLane
    /\ WalkOff

Next ==
    \/ SkipWaypoint
    \/ JunctionBlock
    \/ RoadBlock
    \/ BeginLandmarks
    \/ AttachLandmark
    \/ LandmarkRoadMissing
    \/ FinishLandmarks

Spec == Init /\ [][Next]_vars

\* The maps of the runs through the cache: the shortest lanes and a junction
\* of at most one driving lane.
CacheWorlds == {w \in Worlds : w.len = MinLaneLen /\ ~w.alt /\ Len(w.jl) <= 1}

\* a rasterizer just constructed (__init__), any archive on disk
CacheInit ==
    /\ world \in CacheWorlds
    /\ pc = "idle"
    /\ wi = 0
    /\ data_blocks = <<>>
    /\ self_blocks = <<>>
    /\ landmarks = <<>>
    /\ li = 0
    /\ landmark_s = <<>>
    /\ caller = "none"
    /\ update_existing = FALSE
    /\ zip_file \in ArchiveStates(world)
    /\ json_file = NoFile
    /\ kd_tree = NoTree
    /\ lane_midpoints = <<>>
    /\ outcome = "none"
    /\ calls = 0
    /\ io = <<>>
    /\ loop_lane = NoLane
    /\ loop_check_lane = NoLane
    /\ WalkOff

CacheNext ==
    \/ Next
    \/ ReturnExisting
    \/ CalculateBlocks
    \/ SaveBlocks
    \/ LoadBlocks
    \/ LoadFails
    \/ CallGetDataBlocks
    \/ CallSaveDataBlocks
    \/ ReturnDataBlocks
    \/ MapQueryFails
    \/ LandmarkQueryFails
    \/ BeginLandmarksAgain

CacheSpec == CacheInit /\ [][CacheNext]_vars

----------------------------------------------------------------------------
(* The pair loop of the Contact-Area Calculator on lanes given as input *)

\* the line a straight lane runs on: lanes of roads 1 and 3 run along
\* y = offset from x = 0, lanes of road 2 along x = offset from y = 0
LineOffset(lane_id) ==
    IF lane_id = -1 THEN 100 ELSE IF lane_id = 1 THEN 0 ELSE IF lane_id = 2 THEN 5 ELSE 35

StraightLocation(road_id, lane_id, k) ==
    IF road_id = 2 THEN <<LineOffset(lane_id), k>> ELSE <<k, LineOffset(lane_id)>>

\* a lane of n midpoints, 0.1 m apart, as get_data_lane_for_waypoint builds it
\* from the first sample of a lane: lane_length is the precision of the
\* length walk times the number of its samples
StraightLane(r, l, n) ==
    [road_id |-> r,
     lane_id |-> l,
     lane_length |-> LengthPrecision * ((((n - 1) * MidpointPrecision) \div LengthPrecision) + 1),
     s |-> 0,
     lane_midpoints |-> [k \in 1..n |->
         [distance_to_start |-> WaypointDistance(MidpointPrecision, k - 1),
          location |-> StraightLocation(r, l, k - 1),
          lane_id |-> l, road_id |-> r]],
     intersecting_lanes |-> <<>>,
     contact_areas |-> <<>>,
     landmarks |-> <<>>]

\* lanes of one midpoint (zero length), of 2.0 m, of 20.0 m and of 40.0 m
MidpointCounts == {1, 21, 200, 400}

StraightLanes ==
    {StraightLane(r, l, n) : r \in {1, 2, 3}, l \in {-1, 1, 2, 3}, n \in MidpointCounts}

\* one pass of the pair loop (lines 254-276) for the two lanes
CheckLanePair ==
    /\ pc = "pair"
    /\ pc' = "checked"
    /\ loop_lane' = CheckPair(loop_lane, loop_check_lane)
    /\ UNCHANGED <<world, wi, data_blocks, self_blocks, landmarks, li, landmark_s,
                   loop_check_lane>>
    /\ UNCHANGED cache_vars
    /\ UNCHANGED walk_vars

CalcInit ==
    /\ world = [len |-> MinLaneLen, jl |-> <<>>, alt |-> FALSE]
    /\ pc = "pair"
    /\ wi = 0
    /\ data_blocks = <<>>
    /\ self_blocks = <<>>
    /\ landmarks = <<>>
    /\ li = 0
    /\ landmark_s = <<>>
    /\ caller = "none"
    /\ update_existing = FALSE
    /\ zip_file = NoFile
    /\ json_file = NoFile
    /\ kd_tree = NoTree
    /\ lane_midpoints = <<>>
    /\ outcome = "none"
    /\ calls = 0
    /\ io = <<>>
    /\ loop_lane \in StraightLanes
    /\ loop_check_lane \in StraightLanes
    /\ WalkOff

CalcNext == CheckLanePair

CalcSpec == CalcInit /\ [][CalcNext]_vars

----------------------------------------------------------------------------
(* get_all_waypoints_for_lane, one pass of a while loop at a time, on a lane
   whose stepping the map service answers from a table *)

\* the longest list a walk is recorded with; a walk that goes on beyond it
\* keeps stepping with the list as it is
MaxWalkLen == 3

\* the samples of the walked lane, and a sample of another lane
WalkSamples == {Waypoint(1, 1, 0), Waypoint(1, 1, 1)}
ForeignSample == Waypoint(2, 1, 0)

\* what one call of next / previous may return: nothing, a sample of the
\* lane, a sample of another lane, or both in either order
StepLists ==
    {<<>>, <<ForeignSample>>}
        \cup {<<wp>> : wp \in WalkSamples}
        \cup {<<wp, ForeignSample>> : wp \in WalkSamples}
        \cup {<<ForeignSample, wp>> : wp \in WalkSamples}

LaneMaps == [next : [WalkSamples -> StepLists], previous : [WalkSamples -> StepLists]]

\* lane.previous(precision) in the backward walk, lane.next(precision) in the
\* forward walk
Stepped ==
    IF walk_pc = "backward" THEN lane_map.previous[walk_lane] ELSE lane_map.next[walk_lane]

Recorded(acc) == IF Len(acc) > MaxWalkLen THEN SubSeq(acc, 1, MaxWalkLen) ELSE acc

\* one pass of `while has_next` / `while has_previous` (lines 653-665, 681-693)
WalkIteration ==
    /\ walk_pc \in {"backward", "forward"}
    /\ walk_has
    /\ walk_lane' = WalkPass(Stepped, walk_lane, walk_list).lane
    /\ walk_list' = Recorded(WalkPass(Stepped, walk_lane, walk_list).acc)
    /\ walk_has' = WalkPass(Stepped, walk_lane, walk_list).has
    /\ UNCHANGED <<lane_map, walk_pc, walk_ref, walk_back, walk_result>>
    /\ UNCHANGED <<build_vars, cache_vars, calc_vars>>

\* get_all_waypoints_until_start_of_lane returns; the forward walk starts
\* from the reference sample (lines 527-534)
EndBackwardWalk ==
    /\ walk_pc = "backward"
    /\ ~walk_has
    /\ walk_back' = walk_list
    /\ walk_pc' = "forward"
    /\ walk_lane' = walk_ref
    /\ walk_list' = <<>>
    /\ walk_has' = TRUE
    /\ UNCHANGED <<lane_map, walk_ref, walk_result>>
    /\ UNCHANGED <<build_vars, cache_vars, calc_vars>>

\* get_all_waypoints_until_end_of_lane returns; the lists are joined and the
\* duplicates removed (lines 529-544)
EndForwardWalk ==
    /\ walk_pc = "forward"
    /\ ~walk_has
    /\ walk_result' = Unique((Reverse(walk_back) \o <<walk_ref>>) \o walk_list, <<>>)
    /\ walk_pc' = "returned"
    /\ UNCHANGED <<lane_map, walk_ref, walk_lane, walk_list, walk_has, walk_back>>
    /\ UNCHANGED <<build_vars, cache_vars, calc_vars>>

WalkInit ==
    /\ world = [len |-> MinLaneLen, jl |-> <<>>, alt |-> FALSE]
    /\ pc = "idle"
    /\ wi = 0
    /\ data_blocks = <<>>
    /\ self_blocks = <<>>
    /\ landmarks = <<>>
    /\ li = 0
    /\ landmark_s = <<>>
    /\ caller = "none"
    /\ update_existing = FALSE
    /\ zip_file = NoFile
    /\ json_file = NoFile
    /\ kd_tree = NoTree
    /\ lane_midpoints = <<>>
    /\ outcome = "none"
    /\ calls = 0
    /\ io = <<>>
    /\ loop_lane = NoLane
    /\ loop_check_lane = NoLane
    /\ lane_map \in LaneMaps
    /\ walk_pc = "backward"
    /\ walk_ref \in WalkSamples
    /\ walk_lane = walk_ref
    /\ walk_list = <<>>
    /\ walk_has = TRUE
    /\ walk_back = <<>>
    /\ walk_result = <<>>

WalkNext == WalkIteration \/ EndBackwardWalk \/ EndForwardWalk

WalkSpec == WalkInit /\ [][WalkNext]_vars

\* the walk is not suspended: a pass of a loop that can run does run
WalkLiveSpec == WalkSpec /\ WF_vars(WalkNext)

----------------------------------------------------------------------------
(* The built graph, as the properties below read it *)

\* the positions <<block, road, lane>> of the lanes of the graph
LanePositions(blocks) ==
    {p \in (1..Len(blocks)) \X (1..Cardinality(JunctionLaneKeys)) \X (1..(MaxJunctionLanes + 1)) :
        /\ p[2] <= Len(blocks[p[1]].roads)
        /\ p[3] <= Len(blocks[p[1]].roads[p[2]].lanes)}

LaneAt(blocks, p) == blocks[p[1]].roads[p[2]].lanes[p[3]]

SameKey(a, b) == a.road_id = b.road_id /\ a.lane_id = b.lane_id

Occurrences(seq, x) == Cardinality({i \in 1..Len(seq) : seq[i] = x})

\* the contact areas of a lane that pair the lanes a and b, in either order
AreasOfPair(lane, a, b) ==
    {i \in 1..Len(lane.contact_areas) :
        LET ca == lane.contact_areas[i]
        IN \/ (ca.lane_1_road_id = a.road_id /\ ca.lane_1_id = a.lane_id
               /\ ca.lane_2_road_id = b.road_id /\ ca.lane_2_id = b.lane_id)
           \/ (ca.lane_1_road_id = b.road_id /\ ca.lane_1_id = b.lane_id
               /\ ca.lane_2_road_id = a.road_id /\ ca.lane_2_id = a.lane_id)}

SampledRoadIds == {waypoint_list[k].road_id : k \in 1..Len(waypoint_list)}

----------------------------------------------------------------------------
(* C1 *)

\* C1: after get_data_blocks completes, every road_id that occurs among the
\* sampled waypoints is the road_id of exactly one DataRoad in exactly one
\* DataBlock (none missing, none twice).
C1_RoadPartition ==
    pc = "done" =>
        \A r \in SampledRoadIds : Cardinality(RoadPositions(data_blocks, r)) = 1

----------------------------------------------------------------------------
(* C2 *)

WindowInLane(start_pos, end_pos, lane) ==
    0 <= start_pos /\ start_pos <= end_pos /\ end_pos <= lane.lane_length

\* C2: every DataContactArea built during junction processing satisfies, for
\* each of its two lanes, 0 <= start_pos <= end_pos <= lane_length of the lane
\* the window names.
C2_ContactAreaBounds ==
    \A p \in LanePositions(data_blocks) :
        \A i \in 1..Len(LaneAt(data_blocks, p).contact_areas) :
            \A q \in LanePositions(data_blocks) :
                LET ca == LaneAt(data_blocks, p).contact_areas[i]
                    lane == LaneAt(data_blocks, q)
                IN /\ (q[1] = p[1] /\ lane.road_id = ca.lane_1_road_id /\ lane.lane_id = ca.lane_1_id)
                        => WindowInLane(ca.lane_1_start_pos, ca.lane_1_end_pos, lane)
                   /\ (q[1] = p[1] /\ lane.road_id = ca.lane_2_road_id /\ lane.lane_id = ca.lane_2_id)
                        => WindowInLane(ca.lane_2_start_pos, ca.lane_2_end_pos, lane)

\* a contact area exists whose window on lane 1 is cut at both ends: it starts
\* at 0 and ends at the lane_length of a lane shorter than distance + margin
C2_Witness ==
    \E p \in LanePositions(data_blocks) :
        \E i \in 1..Len(LaneAt(data_blocks, p).contact_areas) :
            LET ca == LaneAt(data_blocks, p).contact_areas[i]
            IN /\ ca.lane_1_start_pos = 0
               /\ ca.lane_1_end_pos < CONTACT_AREA_MARGIN
               /\ ca.lane_2_end_pos < CONTACT_AREA_MARGIN

----------------------------------------------------------------------------
(* C3 *)

\* C3: the id of a contact area is independent of the argument order:
\* from_lanes(A, B) and from_lanes(B, A) give the same id for any two lanes of
\* a block, two lanes of one road with different lane ids included.
C3_IdOrderIndependent ==
    \A p \in LanePositions(data_blocks), q \in LanePositions(data_blocks) :
        (p[1] = q[1] /\ ~SameKey(LaneAt(data_blocks, p), LaneAt(data_blocks, q))) =>
            from_lanes(NoLocation, LaneAt(data_blocks, p), 0, LaneAt(data_blocks, q), 0).id
                = from_lanes(NoLocation, LaneAt(data_blocks, q), 0, LaneAt(data_blocks, p), 0).id

----------------------------------------------------------------------------
(* C4 *)

\* the lanes of block b whose key is that of lane x and that lane a is found
\* to cross when a is the first lane of the traversal
DetectedPartners(b, a, x) ==
    {q \in LanePositions(data_blocks) :
        /\ q[1] = b
        /\ SameKey(LaneAt(data_blocks, q), x)
        /\ get_intersection_of_lanes(a, LaneAt(data_blocks, q)).ok}

\* all the contact areas of block b that pair the lanes a and x
AreasOfPairInBlock(b, a, x) ==
    UNION {{<<q, i>> : i \in AreasOfPair(LaneAt(data_blocks, q), a, x)} :
              q \in {r \in LanePositions(data_blocks) : r[1] = b}}

Crosses(a, x) ==
    get_intersection_of_lanes(a, x).ok \/ get_intersection_of_lanes(x, a).ok

----------------------------------------------------------------------------
(* C5 *)

HoldsInfoFor(lane, other) ==
    \E i \in 1..Len(lane.intersecting_lanes) :
        /\ lane.intersecting_lanes[i].road_id = other.road_id
        /\ lane.intersecting_lanes[i].lane_id = other.lane_id

\* C5: in every junction Block lane A holds a ContactLaneInfo for lane B in
\* intersecting_lanes if and only if lane B holds one for lane A.
C5_IntersectingSymmetric ==
    \A p \in LanePositions(data_blocks), q \in LanePositions(data_blocks) :
        p[1] = q[1] =>
            (HoldsInfoFor(LaneAt(data_blocks, p), LaneAt(data_blocks, q))
                <=> HoldsInfoFor(LaneAt(data_blocks, q), LaneAt(data_blocks, p)))

----------------------------------------------------------------------------
(* C6 *)

ExpectedS(lane, landmark) ==
    IF lane.lane_id > 0 THEN lane.lane_length - landmark.s ELSE landmark.s

\* C6: after add_landmarks_to_lanes, a landmark attached to a lane of positive
\* lane_id has s = lane_length - original s, one attached to a lane of
\* non-positive lane_id has the original s, also when one landmark is valid
\* for several lanes of a road.
C6_LandmarkOffset ==
    pc = "done" =>
        \A p \in LanePositions(data_blocks) :
            \A i \in 1..Len(LaneAt(data_blocks, p).landmarks) :
                LET k == LaneAt(data_blocks, p).landmarks[i]
                IN landmark_s[k] = ExpectedS(LaneAt(data_blocks, p), landmarks[k])

----------------------------------------------------------------------------
(* C7 *)

RoadPresent(landmark) == RoadPositions(data_blocks, landmark.road_id) # {}

\* the landmark at position k is held by every lane of its road it is valid for
AttachedWhereValid(k) ==
    \A p \in LanePositions(data_blocks) :
        (/\ <<p[1], p[2]>> = get_specific_road_from_blocks(data_blocks, landmarks[k].road_id)
         /\ is_lane_valid_for_landmark(landmarks[k], LaneAt(data_blocks, p)))
        => Occurrences(LaneAt(data_blocks, p).landmarks, k) >= 1

\* C7: a landmark whose road_id is not in the Block graph is skipped without
\* affecting any other landmark: every other landmark of the list, before or
\* after it, is still attached to all the lanes it is valid for.
C7_MissingRoadSkipped ==
    pc = "done" =>
        \A j \in 1..Len(landmarks) :
            ~RoadPresent(landmarks[j]) =>
                \A k \in 1..Len(landmarks) :
                    (k # j /\ RoadPresent(landmarks[k])) => AttachedWhereValid(k)

----------------------------------------------------------------------------
(* C8 *)

\* C8: a landmark is appended to a lane's landmark list if and only if the
\* lane belongs to the Road of the landmark's road_id and its lane_id lies in
\* one of the validity intervals (bounds included), and then exactly once.
C8_AttachedIffValid ==
    pc = "done" =>
        \A k \in 1..Len(landmarks) :
            \A p \in LanePositions(data_blocks) :
                Occurrences(LaneAt(data_blocks, p).landmarks, k)
                    = IF /\ LaneAt(data_blocks, p).road_id = landmarks[k].road_id
                         /\ is_lane_valid_for_landmark(landmarks[k], LaneAt(data_blocks, p))
                      THEN 1 ELSE 0

----------------------------------------------------------------------------
(* C9 *)

\* lane_length minus the extent of the midpoints: count times the precision
LengthExcess(lane) == lane.lane_length - Len(lane.lane_midpoints) * MidpointPrecision

\* C9 as claimed: for every Lane the number of lane_midpoints times the
\* midpoint precision (0.1) equals lane_length up to one sampling step (0.1).
C9_LengthWithinOneStep ==
    \A p \in LanePositions(data_blocks) :
        Abs(LengthExcess(LaneAt(data_blocks, p))) <= MidpointPrecision

\* C9 as amended: lane_length comes from a separate walk at precision 2.0 (it
\* is 2.0 times the number of samples of that walk), so it agrees with the
\* number of lane_midpoints times 0.1 only up to one step of the length walk
\* plus one midpoint step (2.1 m), and it is a multiple of 2.0.
C9_LengthWithinLengthStep ==
    \A p \in LanePositions(data_blocks) :
        /\ Abs(LengthExcess(LaneAt(data_blocks, p))) <= LengthPrecision + MidpointPrecision
        /\ LaneAt(data_blocks, p).lane_length % LengthPrecision = 0
        /\ LaneAt(data_blocks, p).lane_length >= LengthPrecision

\* a lane whose lane_length is more than one midpoint step away from the
\* extent of its midpoints
C9_Witness ==
    \E p \in LanePositions(data_blocks) :
        /\ Len(LaneAt(data_blocks, p).lane_midpoints) > LengthPrecision
        /\ LengthExcess(LaneAt(data_blocks, p)) > MidpointPrecision

----------------------------------------------------------------------------
(* C10 *)

\* C10: for every Lane, lane_midpoints is strictly increasing in
\* distance_to_start, its first element has distance_to_start 0, and the
\* element at index i has distance_to_start equal to precision times i.
C10_MidpointDistances ==
    \A p \in LanePositions(data_blocks) :
        LET midpoints == LaneAt(data_blocks, p).lane_midpoints
        IN /\ midpoints[1].distance_to_start = 0
           /\ \A i \in 1..Len(midpoints) :
                  midpoints[i].distance_to_start = MidpointPrecision * (i - 1)
           /\ \A i \in 1..(Len(midpoints) - 1) :
                  midpoints[i].distance_to_start < midpoints[i + 1].distance_to_start

\* a lane built from a sample that is not the first of its lane: its walk
\* joins a backward and a forward part
C10_Witness ==
    \E p \in LanePositions(data_blocks) :
        /\ LaneAt(data_blocks, p).s > 0
        /\ Len(LaneAt(data_blocks, p).lane_midpoints) > LaneAt(data_blocks, p).s

----------------------------------------------------------------------------
(* C11 *)

\* a step in which a client's load_or_calculate_data_blocks begins
LoadCallBegins == calls' = calls + 1 /\ caller' = "load"

\* C11: a persisted Block graph that fails to deserialize is treated as a
\* cache miss: the call of load_or_calculate_data_blocks that finds it does
\* not fail, it goes on to recompute the blocks from the map.
C11_InvalidArchiveIsCacheMiss ==
    [][(/\ LoadCallBegins
        /\ Len(self_blocks) = 0
        /\ zip_file.exists
        /\ ~zip_file.valid)
       => (outcome' # "raised" /\ pc' = "blocks")]_vars

----------------------------------------------------------------------------
(* C12 *)

\* get_closest_lane_midpoint at the location of the midpoint returns a
\* midpoint at distance 0
FoundAtDistanceZero(midpoint) ==
    /\ get_closest_lane_midpoint(midpoint.location).found
    /\ PointDistance(get_closest_lane_midpoint(midpoint.location).location,
                     midpoint.location) = 0

\* C12: whenever load_or_calculate_data_blocks has returned, after any calls
\* before it, the spatial index exists and covers every midpoint of every
\* lane of the returned blocks.
C12_IndexCoversReturnedBlocks ==
    (pc = "idle" /\ caller = "load" /\ outcome = "returned") =>
        /\ kd_tree.built
        /\ \A i \in 1..Len(getLaneMidpointsArray(self_blocks)) :
               FoundAtDistanceZero(getLaneMidpointsArray(self_blocks)[i])

----------------------------------------------------------------------------
(* C13 *)

\* C13: a junction without driving lanes contributes nothing to the graph: no
\* sample of it adds a Block, so the graph holds no Block with an empty road
\* list or an empty id.
C13_NoEmptyBlock ==
    \A b \in 1..Len(data_blocks) :
        Len(data_blocks[b].roads) > 0 /\ data_blocks[b].id # ""

----------------------------------------------------------------------------
(* C14 *)

\* C14: within every DataRoad of the graph, junction or not, no two lanes
\* carry the same lane_id.
C14_LanesUniqueByLaneId ==
    \A p \in LanePositions(data_blocks), q \in LanePositions(data_blocks) :
        (p[1] = q[1] /\ p[2] = q[2] /\ p[3] # q[3]) =>
            LaneAt(data_blocks, p).lane_id # LaneAt(data_blocks, q).lane_id

----------------------------------------------------------------------------
(* C15 *)

\* a step in which the rasterization started by load_or_calculate_data_blocks
\* ends with a failure of the map service
RasterizationFails ==
    caller = "load" /\ pc \in {"blocks", "landmarks"} /\ outcome' = "raised"

\* C15: if a query to the map service fails during the rasterization started
\* by load_or_calculate_data_blocks, the failure reaches the caller and no
\* Block-graph file, .json or .zip, is written in that call: none before the
\* failure, none by it.
C15_FailureWritesNothing ==
    [][RasterizationFails =>
          /\ pc' = "idle"
          /\ io = <<"exists">>
          /\ io' = io
          /\ zip_file' = zip_file
          /\ json_file' = json_file]_vars

\* a rasterization that was to overwrite an existing archive has failed: the
\* old archive is still the only file
C15_Witness ==
    /\ pc = "idle"
    /\ caller = "load"
    /\ outcome = "raised"
    /\ update_existing
    /\ io = <<"exists">>
    /\ zip_file.exists /\ zip_file.valid
    /\ ~json_file.exists

----------------------------------------------------------------------------
(* C16 *)

\* the call returns the blocks in memory: no rasterization, no file operation
ReturnsBlocksInMemory ==
    /\ pc' = "idle"
    /\ outcome' = "returned"
    /\ self_blocks' = self_blocks
    /\ io' = <<>>
    /\ zip_file' = zip_file
    /\ json_file' = json_file

\* the call reads the archive and does not enter get_data_blocks
LoadsArchive ==
    /\ pc' = "idle"
    /\ io'[2] = "extract_zip"
    /\ zip_file' = zip_file
    /\ outcome' = "returned" => self_blocks' = from_list(zip_file)

\* the call enters get_data_blocks without reading the archive
Rasterizes == pc' = "blocks" /\ wi' = 0 /\ io' = <<"exists">>

\* the rasterization started by load_or_calculate_data_blocks has returned
\* and the call ends
LoadCallEndsRasterization == caller = "load" /\ pc = "done" /\ pc' = "idle"

Persists ==
    /\ zip_file' = list_to_json(data_blocks, landmarks, landmark_s)
    /\ self_blocks' = data_blocks
    /\ io' = <<"exists", "write_json", "write_zip", "delete_json">>

\* C16: with no blocks in memory, load_or_calculate_data_blocks loads the
\* archive without rasterizing exactly when the archive exists and
\* update_existing is false, and otherwise rasterizes the map and persists the
\* result; with blocks in memory it returns them without rasterizing and
\* without any file operation.
C16_CacheDecision ==
    [][/\ LoadCallBegins =>
            IF Len(self_blocks) > 0 THEN ReturnsBlocksInMemory
            ELSE IF zip_file.exists /\ ~update_existing' THEN LoadsArchive
            ELSE Rasterizes
       /\ LoadCallEndsRasterization => Persists]_vars

\* a call has loaded the blocks from the archive
C16_Witness ==
    /\ pc = "idle"
    /\ caller = "load"
    /\ outcome = "returned"
    /\ io = <<"exists", "extract_zip", "read_json", "delete_json">>
    /\ self_blocks = from_list(zip_file)
    /\ Len(self_blocks) > 0

----------------------------------------------------------------------------
(* C17 *)

\* the 0-based indices at which the double loop of get_intersection_of_lanes
\* tests the segment from lane_midpoints[index] to lane_midpoints[index + 1]
TestedSegments(lane) ==
    {index \in 0..(Len(SelectSeq(lane.lane_midpoints, IsStation)) - 1) :
        index # Len(lane.lane_midpoints) - 1}

SegmentDirection(lane, index) ==
    <<lane.lane_midpoints[index + 2].location[1] - lane.lane_midpoints[index + 1].location[1],
      lane.lane_midpoints[index + 2].location[2] - lane.lane_midpoints[index + 1].location[2]>>

\* the two direction vectors span no area: parallel, collinear included
ParallelDirections(u, v) == u[1] * v[2] - u[2] * v[1] = 0

AllTestedSegmentsParallel(lane_1, lane_2) ==
    \A i \in TestedSegments(lane_1) : \A j \in TestedSegments(lane_2) :
        ParallelDirections(SegmentDirection(lane_1, i), SegmentDirection(lane_2, j))

SingleMidpoint(lane) == Len(lane.lane_midpoints) = 1

NoCrossingExpected(lane_1, lane_2) ==
    \/ AllTestedSegmentsParallel(lane_1, lane_2)
    \/ SingleMidpoint(lane_1)
    \/ SingleMidpoint(lane_2)

\* C17: a pair of lanes whose tested segments are all pairwise parallel
\* (collinear included), or in which one lane has a single midpoint, leaves
\* the lane of the pair loop without a ContactArea and without a
\* ContactLaneInfo once the pair has been checked.
C17_ParallelYieldsNoCrossing ==
    (pc = "checked" /\ NoCrossingExpected(loop_lane, loop_check_lane))
        => (loop_lane.contact_areas = <<>> /\ loop_lane.intersecting_lanes = <<>>)

\* a checked pair of collinear lanes of two roads, both with segments to test
C17_Witness ==
    /\ pc = "checked"
    /\ loop_lane.road_id = 1 /\ loop_check_lane.road_id = 3
    /\ loop_lane.lane_id = loop_check_lane.lane_id
    /\ Len(loop_lane.lane_midpoints) > 1 /\ Len(loop_check_lane.lane_midpoints) > 1
    /\ AllTestedSegmentsParallel(loop_lane, loop_check_lane)
    /\ loop_lane.contact_areas = <<>>

\* a checked pair in which the lane of the pair loop has a single midpoint
C17_WitnessSingleMidpoint ==
    /\ pc = "checked"
    /\ SingleMidpoint(loop_lane) /\ ~SingleMidpoint(loop_check_lane)
    /\ ~SkipPair(loop_lane, loop_check_lane)
    /\ loop_lane.intersecting_lanes = <<>>

----------------------------------------------------------------------------
(* C18 *)

\* of the two lanes of the checked pair, the one with the given ids
CarriedLane(road_id, lane_id) ==
    IF loop_lane.road_id = road_id /\ loop_lane.lane_id = lane_id
    THEN loop_lane
    ELSE loop_check_lane

DistanceTo(lane, i, point) == distance_between(lane.lane_midpoints[i].location, point)

\* the first of the midpoints of `lane` that no other midpoint is closer to
\* `point` than
FirstNearestIndex(lane, point) ==
    CHOOSE i \in 1..Len(lane.lane_midpoints) :
        /\ \A j \in 1..(i - 1) : DistanceTo(lane, j, point) > DistanceTo(lane, i, point)
        /\ \A j \in (i + 1)..Len(lane.lane_midpoints) :
               DistanceTo(lane, j, point) >= DistanceTo(lane, i, point)

NearestDistance(lane, point) ==
    lane.lane_midpoints[FirstNearestIndex(lane, point)].distance_to_start

WindowOfLane(start_pos, end_pos, lane, point) ==
    /\ start_pos = WindowStart(NearestDistance(lane, point))
    /\ end_pos = WindowEnd(lane.lane_length, NearestDistance(lane, point))

WindowsOfCarriedLanes(area) ==
    /\ WindowOfLane(area.lane_1_start_pos, area.lane_1_end_pos,
                    CarriedLane(area.lane_1_road_id, area.lane_1_id), area.contact_location)
    /\ WindowOfLane(area.lane_2_start_pos, area.lane_2_end_pos,
                    CarriedLane(area.lane_2_road_id, area.lane_2_id), area.contact_location)

\* C18: every DataContactArea of a checked pair has lane_1_road_id <=
\* lane_2_road_id, and each of its two windows is the window of the lane whose
\* road_id and lane_id it carries: around that lane's distance to the
\* crossing and clamped to that lane's lane_length.
C18_OrderedWithOwnWindows ==
    pc = "checked" =>
        \A k \in DOMAIN loop_lane.contact_areas :
            /\ loop_lane.contact_areas[k].lane_1_road_id <= loop_lane.contact_areas[k].lane_2_road_id
            /\ WindowsOfCarriedLanes(loop_lane.contact_areas[k])

\* a checked pair whose lanes were switched and whose distances to the
\* crossing differ
C18_Witness ==
    /\ pc = "checked"
    /\ loop_lane.road_id > loop_check_lane.road_id
    /\ Len(loop_lane.contact_areas) = 1
    /\ loop_lane.contact_areas[1].lane_1_road_id = loop_check_lane.road_id
    /\ loop_lane.contact_areas[1].lane_1_start_pos # loop_lane.contact_areas[1].lane_2_start_pos
    /\ loop_lane.contact_areas[1].lane_1_end_pos # loop_lane.contact_areas[1].lane_2_end_pos

----------------------------------------------------------------------------
(* C19 *)

MidpointLocations(lane) ==
    {lane.lane_midpoints[i].location : i \in DOMAIN lane.lane_midpoints}

\* two lanes of more than one midpoint that run in different directions and
\* share the location of a midpoint: they cross there
CrossAtMidpoint(lane_1, lane_2) ==
    /\ Len(lane_1.lane_midpoints) > 1 /\ Len(lane_2.lane_midpoints) > 1
    /\ ~ParallelDirections(SegmentDirection(lane_1, 0), SegmentDirection(lane_2, 0))
    /\ MidpointLocations(lane_1) \cap MidpointLocations(lane_2) # {}

\* [max(0, d - 3.0), min(lane_length, d + 3.0)], d the stored distance of the
\* midpoint of `lane` nearest to `point`, the first one on ties
MarginWindowOfLane(start_pos, end_pos, lane, point) ==
    /\ start_pos = Max(0, NearestDistance(lane, point) - CONTACT_AREA_MARGIN)
    /\ end_pos = Min(lane.lane_length, NearestDistance(lane, point) + CONTACT_AREA_MARGIN)

MarginWindows(area) ==
    /\ MarginWindowOfLane(area.lane_1_start_pos, area.lane_1_end_pos,
                          CarriedLane(area.lane_1_road_id, area.lane_1_id), area.contact_location)
    /\ MarginWindowOfLane(area.lane_2_start_pos, area.lane_2_end_pos,
                          CarriedLane(area.lane_2_road_id, area.lane_2_id), area.contact_location)

\* C19: two lanes that cross at a midpoint of both hold, once the pair is
\* checked, a ContactArea whose window on each lane is
\* [max(0, d - 3.0), min(lane_length, d + 3.0)] around the distance d of that
\* lane's nearest midpoint; two 20 m lanes that cross at right angle at their
\* 10 m stations get the window [7, 13] on both.
C19_WindowAroundNearestMidpoint ==
    (pc = "checked" /\ CrossAtMidpoint(loop_lane, loop_check_lane))
        => /\ Len(loop_lane.contact_areas) = 1
           /\ MarginWindows(loop_lane.contact_areas[1])

\* the part of C19 the pair loop keeps: the windows of the ContactAreas it
\* does construct
C19_WindowsOfConstructedAreas ==
    pc = "checked" =>
        \A k \in DOMAIN loop_lane.contact_areas : MarginWindows(loop_lane.contact_areas[k])

----------------------------------------------------------------------------
(* C20 *)

\* every sample of the map has gone through the loop that constructs Blocks
AllBlocksConstructed == wi = Len(waypoint_list)

AttachmentStarts == pc # "landmarks" /\ pc' = "landmarks"

IndexIsBuilt == kd_tree' # kd_tree

\* the index is built from the graph of a finished build: all Blocks
\* constructed and add_landmarks_to_lanes returned
IndexOverBuiltGraph ==
    /\ pc = "done"
    /\ AllBlocksConstructed
    /\ self_blocks' = data_blocks
    /\ lane_midpoints' = getLaneMidpointsArray(data_blocks)

\* the index is built from the graph read from the archive
IndexOverLoadedGraph ==
    /\ zip_file.exists
    /\ self_blocks' = from_list(zip_file)
    /\ lane_midpoints' = getLaneMidpointsArray(from_list(zip_file))

----------------------------------------------------------------------------
(* C21 *)

\* the midpoints at round stations, in lane order
Stations(lane) == SelectSeq(lane.lane_midpoints, IsStation)

StationSegmentCrossing(stations_1, i, stations_2, j) ==
    SegmentCrossing(stations_1[i].location, stations_1[i + 1].location,
                    stations_2[j].location, stations_2[j + 1].location)

\* a segment between adjacent stations of lane_1 crosses one between
\* adjacent stations of lane_2
StationSegmentsCross(stations_1, stations_2) ==
    \E i \in 1..(Len(stations_1) - 1) : \E j \in 1..(Len(stations_2) - 1) :
        StationSegmentCrossing(stations_1, i, stations_2, j).ok

\* C21: two lanes of a checked pair whose station-to-station segments cross
\* somewhere along their length yield a crossing: the lane of the pair loop
\* names the other lane and holds a ContactArea.
C21_StationSegmentsTested ==
    (/\ pc = "checked"
     /\ ~SkipPair(loop_lane, loop_check_lane)
     /\ StationSegmentsCross(Stations(loop_lane), Stations(loop_check_lane)))
        => (loop_lane.intersecting_lanes # <<>> /\ loop_lane.contact_areas # <<>>)

----------------------------------------------------------------------------
(* C22 *)

\* the step of this pass returned a sample on the lane being walked
SameLaneSampleReturned ==
    \E k \in 1..Len(Stepped) : SameLane(Stepped[k], walk_lane)

\* a pass of the loop of a directional walk
WalkPassTaken == walk_pc \in {"backward", "forward"} /\ walk_has /\ walk_pc' = walk_pc

\* C22: a pass of a directional walk whose step returns a sample of the same
\* (road_id, lane_id) leaves the walk running, a sample of another lane
\* returned with it (lane split) included; the walk stops only on a step
\* without a same-lane sample.
C22_WalkContinuesOnSameLane ==
    [][(WalkPassTaken /\ SameLaneSampleReturned) => walk_has']_vars

\* the other half of C22, which the walks keep: a pass whose step returns no
\* same-lane sample ends the walk
C22_WalkStopsWithoutSameLane ==
    [][(WalkPassTaken /\ ~SameLaneSampleReturned) => ~walk_has']_vars

----------------------------------------------------------------------------
(* C23 *)

\* the backward walk in reversed order, the reference sample, the forward walk
JoinedWalks == (Reverse(walk_back) \o <<walk_ref>>) \o walk_list

NoSampleTwice(seq) == \A i, j \in 1..Len(seq) : seq[i] = seq[j] => i = j

CountOf(seq, wp) == Cardinality({i \in 1..Len(seq) : seq[i] = wp})

AllOnLaneOf(seq, wp) == \A i \in 1..Len(seq) : SameLane(seq[i], wp)

\* C23: the sequence get_all_waypoints_for_lane returns is the backward walk
\* reversed, then the reference sample, then the forward walk; no sample is
\* in it twice, the reference sample is in it once, and every sample is on
\* the lane of the reference sample.
C23_JoinedWalksWithoutRepeats ==
    walk_pc = "returned" =>
        /\ walk_result = JoinedWalks
        /\ NoSampleTwice(walk_result)
        /\ CountOf(walk_result, walk_ref) = 1
        /\ AllOnLaneOf(walk_result, walk_ref)

\* what the returned sequence does satisfy: the three properties of its
\* samples, and the order of the joined walks among the samples it keeps
C23_SamplesOfReturnedSequence ==
    walk_pc = "returned" =>
        /\ NoSampleTwice(walk_result)
        /\ CountOf(walk_result, walk_ref) = 1
        /\ AllOnLaneOf(walk_result, walk_ref)
        /\ {walk_result[i] : i \in 1..Len(walk_result)}
               = {JoinedWalks[i] : i \in 1..Len(JoinedWalks)}

----------------------------------------------------------------------------
(* C30 *)

\* C30: every call of get_all_waypoints_for_lane on a map of finitely many
\* samples returns, a lane whose stepping leads back onto itself included.
C30_WalkTerminates == <>(walk_pc = "returned")

----------------------------------------------------------------------------
(* C24 *)

\* this pass of the loop of get_data_blocks appends a Block for a junction sample
JunctionBlockAdded ==
    /\ pc = "blocks"
    /\ wi' = wi + 1
    /\ IsJunction(waypoint_list[wi + 1])
    /\ Len(data_blocks') = Len(data_blocks) + 1

\* the (road_id, lane_id) of the junction's driving lanes with road id r, in
\* the order the junction names them
JunctionKeysOfRoad(r) == SelectSeq(world.jl, LAMBDA key : key[1] = r)

FirstJunctionIndex(r) ==
    CHOOSE k \in 1..Len(world.jl) :
        world.jl[k][1] = r /\ \A j \in 1..(k - 1) : world.jl[j][1] # r

\* one DataRoad per distinct road id of the junction, in order of discovery
OneRoadPerRoadId(block) ==
    /\ {block.roads[k].road_id : k \in 1..Len(block.roads)}
           = {world.jl[k][1] : k \in 1..Len(world.jl)}
    /\ \A i, j \in 1..Len(block.roads) :
           i < j => FirstJunctionIndex(block.roads[i].road_id)
                        < FirstJunctionIndex(block.roads[j].road_id)

\* the lanes of the DataRoad are those built for the junction's samples of
\* that road, in their order
HoldsLanesOfItsRoad(road) ==
    /\ Len(road.lanes) = Len(JunctionKeysOfRoad(road.road_id))
    /\ \A k \in 1..Len(road.lanes) :
           /\ road.lanes[k].road_id = road.road_id
           /\ road.lanes[k].lane_id = JunctionKeysOfRoad(road.road_id)[k][2]
           /\ road.lanes[k].lane_midpoints
                  = get_data_lane_for_waypoint(world,
                        Waypoint(road.road_id, road.lanes[k].lane_id, 0)).lane_midpoints

\* the road ids of the Block joined with '-'
DashedRoadIds(block) ==
    IF Len(block.roads) = 0 THEN ""
    ELSE IF Len(block.roads) = 1 THEN ToString(block.roads[1].road_id)
    ELSE ToString(block.roads[1].road_id) \o "-" \o ToString(block.roads[2].road_id)

JunctionBlockAsBuilt(block) ==
    /\ OneRoadPerRoadId(block)
    /\ \A k \in 1..Len(block.roads) :
           block.roads[k].is_junction /\ HoldsLanesOfItsRoad(block.roads[k])
    /\ Len(block.roads) <= 2 => block.id = DashedRoadIds(block)

\* C24: the Block appended for a junction sample has one DataRoad per
\* distinct road id among the junction's driving lanes, in order of first
\* discovery, each with is_junction = true and exactly the lanes built for
\* that road id, and its id is those road ids joined with '-'.
C24_JunctionBlock ==
    [][JunctionBlockAdded => JunctionBlockAsBuilt(data_blocks'[Len(data_blocks')])]_vars

\* a Block of the two junction roads, road 2 discovered first, has been appended
C24_Witness ==
    \E b \in 1..Len(data_blocks) :
        /\ Len(data_blocks[b].roads) = 2
        /\ data_blocks[b].roads[1].is_junction
        /\ data_blocks[b].id = "2-1"
        /\ Len(world.jl) = MaxJunctionLanes

----------------------------------------------------------------------------
(* C25 *)

\* this pass of the loop of get_data_blocks appends a Block for a sample
\* outside every junction
RoadBlockAdded ==
    /\ pc = "blocks"
    /\ wi' = wi + 1
    /\ ~IsJunction(waypoint_list[wi + 1])
    /\ Len(data_blocks') = Len(data_blocks) + 1

\* the position in the input of the first sample of lane l of road r
FirstSampleIndex(r, l) ==
    CHOOSE k \in 1..Len(waypoint_list) :
        /\ waypoint_list[k].road_id = r /\ waypoint_list[k].lane_id = l
        /\ \A j \in 1..(k - 1) :
               ~(waypoint_list[j].road_id = r /\ waypoint_list[j].lane_id = l)

LaneIdsOfSamples(r) ==
    {waypoint_list[k].lane_id : k \in {j \in 1..Len(waypoint_list) : waypoint_list[j].road_id = r}}

\* one Lane per lane_id of the samples of the road, each built from the
\* first sample of its lane_id
OneLanePerLaneId(road) ==
    /\ {road.lanes[k].lane_id : k \in 1..Len(road.lanes)} = LaneIdsOfSamples(road.road_id)
    /\ \A i, j \in 1..Len(road.lanes) :
           road.lanes[i].lane_id = road.lanes[j].lane_id => i = j
    /\ \A k \in 1..Len(road.lanes) :
           /\ road.lanes[k].road_id = road.road_id
           /\ road.lanes[k].s
                  = waypoint_list[FirstSampleIndex(road.road_id, road.lanes[k].lane_id)].s
           /\ road.lanes[k]
                  = get_data_lane_for_waypoint(world,
                        waypoint_list[FirstSampleIndex(road.road_id, road.lanes[k].lane_id)])

RoadBlockAsBuilt(block, waypoint) ==
    /\ block.id = ToString(waypoint.road_id)
    /\ Len(block.roads) = 1
    /\ block.roads[1].road_id = waypoint.road_id
    /\ ~block.roads[1].is_junction
    /\ OneLanePerLaneId(block.roads[1])

\* C25: the Block appended for a sample outside every junction, of road id
\* r, has the id str(r) and a single DataRoad with is_junction = false that
\* holds one Lane per distinct lane_id among the input samples of road r,
\* each built from the first of those samples in input order.
C25_RoadBlock ==
    [][RoadBlockAdded
         => RoadBlockAsBuilt(data_blocks'[Len(data_blocks')], waypoint_list[wi + 1])]_vars

\* the Block of road 3 has been appended from the samples in reversed order:
\* the first sample of each of its two lanes is the one at the end of the lane
C25_Witness ==
    /\ world.alt
    /\ \E b \in 1..Len(data_blocks) :
           /\ data_blocks[b].id = "3"
           /\ Len(data_blocks[b].roads[1].lanes) = 2
           /\ data_blocks[b].roads[1].lanes[1].s > 0

----------------------------------------------------------------------------
(* C26 *)

SaveCallTaken == calls' = calls + 1 /\ caller' = "save"

NothingWritten == json_file' = json_file /\ zip_file' = zip_file /\ io' = <<>>

BlockListWritten ==
    /\ json_file'.exists
    /\ Len(from_list(json_file')) = Len(self_blocks)
    /\ \A b \in 1..Len(self_blocks) : from_list(json_file')[b].id = self_blocks[b].id
    /\ zip_file' = zip_file
    /\ io' = <<"write_json">>

\* C26: save_data_blocks called while no block is held raises and writes
\* nothing; called while at least one block is held it writes the block list
\* to the given path and returns.
C26_SaveNeedsBlocks ==
    [][SaveCallTaken =>
          /\ Len(self_blocks) = 0 => (outcome' = "raised" /\ NothingWritten)
          /\ Len(self_blocks) > 0 => (outcome' = "returned" /\ BlockListWritten)]_vars

\* save_data_blocks has been called on a rasterizer without blocks
C26_Witness ==
    /\ caller = "save"
    /\ outcome = "raised"
    /\ Len(self_blocks) = 0
    /\ ~json_file.exists
    /\ io = <<>>

----------------------------------------------------------------------------
(* C27 *)

\* the ContactAreas held by `lane` whose two lanes are `lane` and `partner`
AreasWithPartner(lane, partner) ==
    {lane.contact_areas[k] : k \in
        {i \in 1..Len(lane.contact_areas) :
            \/ /\ lane.contact_areas[i].lane_1_road_id = lane.road_id
               /\ lane.contact_areas[i].lane_1_id = lane.lane_id
               /\ lane.contact_areas[i].lane_2_road_id = partner.road_id
               /\ lane.contact_areas[i].lane_2_id = partner.lane_id
            \/ /\ lane.contact_areas[i].lane_1_road_id = partner.road_id
               /\ lane.contact_areas[i].lane_1_id = partner.lane_id
               /\ lane.contact_areas[i].lane_2_road_id = lane.road_id
               /\ lane.contact_areas[i].lane_2_id = lane.lane_id}}

\* the lanes of one Block
BlockLaneSets == {LanesOfBlocks(<<data_blocks[b]>>) : b \in 1..Len(data_blocks)}

\* every ContactArea `lane` holds for `partner` is held by `partner` for
\* `lane` as well: same id, contact_location and windows
MirroredIn(lane, partner) ==
    \A area \in AreasWithPartner(lane, partner) : area \in AreasWithPartner(partner, lane)

\* C27: for two crossing lanes A and B of a junction Block, the ContactArea
\* in A.contact_areas for partner B and the one in B.contact_areas for
\* partner A are the same: same id, same contact_location, same windows.
C27_ContactAreaSymmetric ==
    pc = "done" =>
        \A lanes \in BlockLaneSets : \A a, b \in 1..Len(lanes) :
            ~SameKey(lanes[a], lanes[b]) => MirroredIn(lanes[a], lanes[b])

\* the part of C27 the Calculator keeps: where both lanes hold a ContactArea
\* for each other, the two are the same
C27_SameWhereBothHold ==
    pc = "done" =>
        \A lanes \in BlockLaneSets : \A a, b \in 1..Len(lanes) :
            (/\ ~SameKey(lanes[a], lanes[b])
             /\ AreasWithPartner(lanes[a], lanes[b]) # {}
             /\ AreasWithPartner(lanes[b], lanes[a]) # {})
                => AreasWithPartner(lanes[a], lanes[b]) = AreasWithPartner(lanes[b], lanes[a])

----------------------------------------------------------------------------
(* C28 *)

\* get_data_blocks raises, on a rasterizer that held no blocks when it was
\* called
RaisesWithoutBlocksHeld ==
    /\ pc = "blocks"
    /\ pc' = "idle"
    /\ outcome' = "raised"
    /\ Len(self_blocks) = 0

\* C28: when get_data_blocks raises, during the landmark attachment as well,
\* the stored block list stays empty, so that no later call returns or
\* persists a graph that was not built to its end.
C28_RaisingLeavesNoBlocks ==
    [][RaisesWithoutBlocksHeld => Len(self_blocks') = 0]_vars

----------------------------------------------------------------------------
(* C29 *)

\* load_or_calculate_data_blocks returns after it has computed the blocks
\* (the archive was written) or loaded them (the .json file was read)
ReturnsComputedOrLoaded ==
    /\ caller' = "load"
    /\ outcome' = "returned"
    /\ outcome # "returned" \/ calls' # calls
    /\ \E k \in 1..Len(io') : io'[k] \in {"write_zip", "read_json"}

\* C29: whenever load_or_calculate_data_blocks returns after computing or
\* loading the blocks, the .zip archive exists and the unzipped .json file
\* does not.
C29_ArchiveWithoutJson ==
    [][ReturnsComputedOrLoaded => (zip_file'.exists /\ ~json_file'.exists)]_vars

\* a call with update_existing has recomputed the blocks over an archive
\* that existed and has returned
C29_Witness ==
    /\ pc = "idle"
    /\ caller = "load"
    /\ outcome = "returned"
    /\ update_existing
    /\ io = <<"exists", "write_json", "write_zip", "delete_json">>
    /\ zip_file.exists
    /\ ~json_file.exists

====
